---- MODULE Spec2Model ----
(***************************************************************************)
(* The steganographic codec of src/main.py as a state machine.             *)
(*                                                                         *)
(* Images are records [h, w, px]: px is the row-major tuple of the h*w     *)
(* pixels, each a tuple <<r, g, b>> of bytes (arr.reshape(-1, 3)); the     *)
(* pixel with flat index idx (0-based, as in the source) is px[idx + 1].   *)
(* Byte strings and bit arrays are tuples of 0..255 and of 0..1.           *)
(*                                                                         *)
(* Library code that is not in the repository is modelled by what it       *)
(* computes: cv2.cvtColor / cv2.Laplacian by their integer formulas,       *)
(* zlib by the stored-block zlib stream (RFC 1950/1951, which              *)
(* zlib.decompress accepts), hashlib / PBKDF2 / AES-GCM by a small keyed   *)
(* checksum with the same interface, lengths and failure cases, and        *)
(* numpy's seeded shuffle by a permutation fixed by (seed, n).             *)
(***************************************************************************)
EXTENDS Integers, Sequences, FiniteSets, TLC

VARIABLES
  pc,          \* the handler or step that ran last
  cover,       \* the image handed to embed / embed_bits
  passphrase,  \* the key of the embed
  secret,      \* the secret input of embed: text, file or none
  salt,        \* os.urandom(16) of encrypt_payload
  nonce,       \* os.urandom(12) of encrypt_payload
  bits,        \* the bit array handed to embed_bits
  stego,       \* what embed_bits returned: [err, arr, bit_idx, input]
  metrics,     \* the Metrics record of the embed response
  xkey,        \* the key of the extract
  xbits,       \* what extract_bits returned
  response,    \* what extract returned: [kind, filename, data, verified, ...]
  arg,         \* the argument of a function applied on its own
  ret          \* its result

vars == <<pc, cover, passphrase, secret, salt, nonce, bits, stego, metrics,
          xkey, xbits, response, arg, ret>>

----------------------------------------------------------------------------
(* Program constants.                                                      *)

MAGIC == <<83, 84, 71, 49>>          \* b"STG1"
HEADER_LEN == 36                     \* struct.calcsize(">4sI16s12s")
REDUNDANCY == 3
SALT_LEN == 16
NONCE_LEN == 12
TAG_LEN == 16                        \* AES-GCM tag appended to the ciphertext
HASH_LEN == 32                       \* SHA-256 digest
INNER_HEADER_LEN == 34               \* struct.calcsize(">32sH")
MAX_NAME_LEN == 65535
SEED_BYTES == 8                      \* digest[:8]

----------------------------------------------------------------------------
(* Loops.  Tab builds the tuple <<F(lo), ..., F(hi)>>; Fold runs a loop    *)
(* body over lo..hi in order, threading the loop's state.                  *)

RECURSIVE Tab(_, _, _)
Tab(F(_), lo, hi) ==
  IF lo > hi THEN <<>>
  ELSE IF lo = hi THEN <<F(lo)>>
  ELSE LET mid == (lo + hi) \div 2
       IN Tab(F, lo, mid) \o Tab(F, mid + 1, hi)

RECURSIVE Fold(_, _, _, _)
Fold(Step(_, _), st, lo, hi) ==
  IF lo > hi THEN st
  ELSE IF lo = hi THEN Step(st, lo)
  ELSE LET mid == (lo + hi) \div 2
           left == Fold(Step, st, lo, mid)
       IN IF {left} = {} THEN st ELSE Fold(Step, left, mid + 1, hi)

\* The element of a set of one element.  {e : v \in {x}} is e with v the
\* value of x, computed once: a local variable of the code.
The(S) == CHOOSE r \in S : TRUE

Abs(x) == IF x < 0 THEN -x ELSE x
Min(a, b) == IF a < b THEN a ELSE b
Sum(s) == Fold(LAMBDA acc, i : acc + s[i], 0, 1, Len(s))
Zeros(n) == Tab(LAMBDA i : 0, 1, n)

----------------------------------------------------------------------------
(* 4.A Bit I/O.                                                            *)

\* np.unpackbits: each byte as 8 bits, most significant first.
bits_from_bytes(data) ==
  Tab(LAMBDA i : (data[(i - 1) \div 8 + 1] \div (2 ^ (7 - ((i - 1) % 8)))) % 2,
      1, 8 * Len(data))

\* np.packbits, after the length check.
bytes_from_bits(bs) ==
  IF Len(bs) % 8 # 0 THEN [err |-> "BitLength", bytes |-> <<>>]
  ELSE [err |-> "",
        bytes |-> Tab(LAMBDA k : Fold(LAMBDA acc, j : 2 * acc + bs[8 * (k - 1) + j],
                                      0, 1, 8),
                      1, Len(bs) \div 8)]

----------------------------------------------------------------------------
(* 4.D Edge-depth map.                                                     *)

\* cv2.cvtColor(arr, COLOR_RGB2GRAY) on 8-bit pixels: fixed-point BT.601.
Gray(p) == (p[1] * 9798 + p[2] * 19235 + p[3] * 3735 + 16384) \div 32768

\* cv2's default border (BORDER_REFLECT_101) for one step outside 0..n-1.
Reflect(i, n) ==
  IF n = 1 THEN 0 ELSE IF i < 0 THEN -i ELSE IF i >= n THEN 2 * n - 2 - i ELSE i

\* np.where(norm > 0.25, 2, 1) with norm = mag / (max_val + 1e-6): mag and
\* max_val are whole numbers, so the test is 4 * mag > max_val.
depth_of_mag(mag, max_val) == IF 4 * mag > max_val THEN 2 ELSE 1

compute_edge_depth_map(arr) ==
  LET h == arr.h
      w == arr.w
      n == h * w
      gray == Tab(LAMBDA i : Gray(arr.px[i]), 1, n)
      at(y, x) == gray[Reflect(y, h) * w + Reflect(x, w) + 1]
      edges(i) == LET y == (i - 1) \div w
                      x == (i - 1) % w
                  IN at(y - 1, x) + at(y + 1, x) + at(y, x - 1) + at(y, x + 1)
                     - 4 * at(y, x)
      mag == Tab(LAMBDA i : Abs(edges(i)), 1, n)
      vals == {mag[i] : i \in 1..n}
      max_val == IF n = 0 THEN 0 ELSE CHOOSE m \in vals : \A v \in vals : v <= m
  IN Tab(LAMBDA i : depth_of_mag(mag[i], max_val), 1, n)

----------------------------------------------------------------------------
(* Hashing.  hashlib.sha256 is modelled by a 32-byte keyed checksum: a     *)
(* polynomial hash of the input, spread over HASH_LEN bytes.  It keeps     *)
(* what the program uses of SHA-256: a fixed-length digest that is a       *)
(* function of the input and differs for the inputs of the model.          *)

sha256(data) ==
  LET h == Fold(LAMBDA acc, i : (acc * 31 + data[i] + 1) % 65521, 1, 1, Len(data))
  IN Tab(LAMBDA i : IF i = 1 THEN h % 256
                    ELSE IF i = 2 THEN h \div 256
                    ELSE ((h + i) * (2 * i + 1) + (h \div 256) * i) % 256,
         1, HASH_LEN)

\* int.from_bytes(b, "big"), kept within 23 bits (TLC's integers are 32-bit).
int_from_bytes(b) ==
  Fold(LAMBDA acc, i : (acc * 256 + b[i]) % 8388608, 0, 1, Len(b))

----------------------------------------------------------------------------
(* 4.E Permutation.                                                        *)

seed_from_key(key) == int_from_bytes(SubSeq(sha256(key), 1, SEED_BYTES))

RECURSIVE Gcd(_, _)
Gcd(a, b) == IF b = 0 THEN a ELSE Gcd(b, a % b)

\* order = np.arange(n); np.random.default_rng(seed).shuffle(order): a
\* permutation of 0..n-1 that (seed, n) fixes.  The generator is outside
\* the repository; the model takes the permutation k |-> (a * k + b) % n,
\* with the offset b and the multiplier a (the first number coprime to n at
\* or after a starting point) both read off the seed.
shuffle(seed, n) ==
  IF n = 0 THEN <<>>
  ELSE IF n = 1 THEN <<0>>
  ELSE LET from == 1 + (seed % (n - 1))
           a == CHOOSE u \in from..(n - 1) :
                  /\ Gcd(u, n) = 1
                  /\ \A v \in from..(u - 1) : Gcd(v, n) # 1
           b == (seed \div (n - 1)) % n
       IN Tab(LAMBDA k : (a * (k - 1) + b) % n, 1, n)

----------------------------------------------------------------------------
(* 4.F Embed / extract engine.                                             *)

\* np.repeat(bits, REDUNDANCY): every bit REDUNDANCY times in a row.
np_repeat(bs, r) == Tab(LAMBDA q : bs[(q - 1) \div r + 1], 1, r * Len(bs))

\* capacity_bits = int(depth_map.sum() * 3)
capacity_bits_of(depth_map) == Sum(depth_map) * 3

\* value = 0; for bit in bit_chunk: value = (value << 1) | int(bit)
chunk_value(chunk) == Fold(LAMBDA value, j : 2 * value + chunk[j], 0, 1, Len(chunk))

\* mask = (1 << take) - 1; (old & ~mask) | value
set_low_bits_all(old, take, value) == value
set_low_bits(old, take, value) == (old \div (2 ^ take)) * (2 ^ take) + value

\* np.unpackbits(np.array([value & mask]))[-take:]: the low take bits,
\* most significant first.
low_bits(v, take) ==
  Tab(LAMBDA j : ((v % (2 ^ take)) \div (2 ^ (take - j))) % 2, 1, take)

\* One channel of one pixel of embed_bits' loop.  st.done records the early
\* return taken when the stream is exhausted.
embed_channel(st, ch, depth, encoded_bits) ==
  IF st.done \/ st.bit_idx >= Len(encoded_bits) THEN [st EXCEPT !.done = TRUE]
  ELSE LET take == Min(depth, Len(encoded_bits) - st.bit_idx)
           bit_chunk == SubSeq(encoded_bits, st.bit_idx + 1, st.bit_idx + take)
           value == chunk_value(bit_chunk)
       IN [st EXCEPT !.bit_idx = @ + take,
                     !.flat[st.idx + 1][ch] = set_low_bits(@, take, value)]

\* The check of line 139, isolated: the stream does not fit.
too_large_never(encoded_len, capacity_bits) == FALSE
too_large(encoded_len, capacity_bits) == encoded_len > capacity_bits

\* Returns [err, arr, bit_idx, input]: the error raised if any, the array
\* returned, the value of bit_idx when the loop ended, and the caller's array
\* after the call (flat is a copy, so the loop never writes to it).
embed_bits(arr, bs, key) ==
  The({LET n == arr.h * arr.w
           capacity_bits == capacity_bits_of(depth_map)
           Pixel(st, k) ==
             IF st.done THEN st
             ELSE LET idx == order[k]
                      depth == depth_map[idx + 1]
                  IN IF depth <= 0 THEN st
                     ELSE Fold(LAMBDA s, ch : embed_channel(s, ch, depth, encoded_bits),
                               [st EXCEPT !.idx = idx], 1, 3)
           fin == Fold(Pixel,
                       [flat |-> arr.px, bit_idx |-> 0, done |-> FALSE, idx |-> 0],
                       1, n)
       IN IF too_large(Len(encoded_bits), capacity_bits)
          THEN [err |-> "CapacityExceeded", arr |-> arr, bit_idx |-> 0, input |-> arr]
          ELSE [err |-> "", arr |-> [h |-> arr.h, w |-> arr.w, px |-> fin.flat],
                bit_idx |-> fin.bit_idx, input |-> arr] :
         depth_map \in {compute_edge_depth_map(arr)},
         encoded_bits \in {np_repeat(bs, REDUNDANCY)},
         order \in {shuffle(seed_from_key(key), arr.h * arr.w)}})

\* votes >= REDUNDANCY // 2 + 1
majority_any(votes) == IF votes >= 1 THEN 1 ELSE 0
majority_all(votes) == IF votes >= REDUNDANCY THEN 1 ELSE 0
majority(votes) == IF votes >= REDUNDANCY \div 2 + 1 THEN 1 ELSE 0

decode_redundancy(raw_bits) ==
  LET kept == Len(raw_bits) - (Len(raw_bits) % REDUNDANCY)
      votes(g) == Fold(LAMBDA acc, j : acc + raw_bits[REDUNDANCY * (g - 1) + j],
                       0, 1, REDUNDANCY)
  IN Tab(LAMBDA g : majority(votes(g)), 1, kept \div REDUNDANCY)

\* One channel of one pixel of extract_bits' loop; st.raw holds
\* raw_bits[0:bit_idx], the rest of raw_bits is still zero.
extract_channel(st, ch, depth, px, total) ==
  IF st.done \/ st.bit_idx >= total THEN [st EXCEPT !.done = TRUE]
  ELSE LET take == Min(depth, total - st.bit_idx)
       IN [st EXCEPT !.bit_idx = @ + take,
                     !.raw = @ \o low_bits(px[st.idx + 1][ch], take)]

extract_bits(arr, total_bits, key) ==
  The({LET n == arr.h * arr.w
           total == total_bits * REDUNDANCY
           Pixel(st, k) ==
             IF st.done THEN st
             ELSE LET idx == order[k]
                      depth == depth_map[idx + 1]
                  IN IF depth <= 0 THEN st
                     ELSE Fold(LAMBDA s, ch : extract_channel(s, ch, depth, px, total),
                               [st EXCEPT !.idx = idx], 1, 3)
           fin == Fold(Pixel, [raw |-> <<>>, bit_idx |-> 0, done |-> FALSE, idx |-> 0],
                       1, n)
       IN decode_redundancy(fin.raw \o Zeros(total - Len(fin.raw))) :
         depth_map \in {compute_edge_depth_map(arr)},
         px \in {arr.px},
         order \in {shuffle(seed_from_key(key), arr.h * arr.w)}})

----------------------------------------------------------------------------
(* Text.  Strings are tuples of Unicode code points; str.encode("utf-8")   *)
(* and bytes.decode("utf-8", errors="replace") are the UTF-8 codec.        *)

REPLACEMENT == 65533                 \* U+FFFD

utf8_encode_char(cp) ==
  IF cp < 128 THEN <<cp>>
  ELSE IF cp < 2048 THEN <<192 + cp \div 64, 128 + (cp % 64)>>
  ELSE IF cp < 65536
    THEN <<224 + cp \div 4096, 128 + ((cp \div 64) % 64), 128 + (cp % 64)>>
  ELSE <<240 + cp \div 262144, 128 + ((cp \div 4096) % 64),
         128 + ((cp \div 64) % 64), 128 + (cp % 64)>>

utf8_encode(str) ==
  Fold(LAMBDA acc, i : acc \o utf8_encode_char(str[i]), <<>>, 1, Len(str))

\* The decoder reads one sequence at position i: [cp, len].  An ill-formed
\* sequence gives U+FFFD for its longest well-formed prefix (one byte at least).
utf8_decode_at(b, i) ==
  LET b1 == b[i]
      need == IF b1 < 128 THEN 0
              ELSE IF b1 >= 194 /\ b1 <= 223 THEN 1
              ELSE IF b1 >= 224 /\ b1 <= 239 THEN 2
              ELSE IF b1 >= 240 /\ b1 <= 244 THEN 3
              ELSE -1
      lo2 == IF b1 = 224 THEN 160 ELSE IF b1 = 240 THEN 144 ELSE 128
      hi2 == IF b1 = 237 THEN 159 ELSE IF b1 = 244 THEN 143 ELSE 191
      ok(j) == /\ i + j <= Len(b)
               /\ IF j = 1 THEN b[i + j] >= lo2 /\ b[i + j] <= hi2
                  ELSE b[i + j] >= 128 /\ b[i + j] <= 191
      good == IF need < 1 \/ ~ok(1) THEN 0
              ELSE IF need < 2 \/ ~ok(2) THEN 1
              ELSE IF need < 3 \/ ~ok(3) THEN 2
              ELSE 3
      lead == IF need = 1 THEN b1 - 192 ELSE IF need = 2 THEN b1 - 224 ELSE b1 - 240
      cp == Fold(LAMBDA acc, j : acc * 64 + (b[i + j] - 128), lead, 1, need)
  IN IF need = 0 THEN [cp |-> b1, len |-> 1]
     ELSE IF need = -1 THEN [cp |-> REPLACEMENT, len |-> 1]
     ELSE IF good = need THEN [cp |-> cp, len |-> need + 1]
     ELSE [cp |-> REPLACEMENT, len |-> good + 1]

RECURSIVE utf8_decode_from(_, _)
utf8_decode_from(b, i) ==
  IF i > Len(b) THEN <<>>
  ELSE LET d == utf8_decode_at(b, i)
       IN <<d.cp>> \o utf8_decode_from(b, i + d.len)

utf8_decode(b) == utf8_decode_from(b, 1)

\* str.strip() is empty: only whitespace.
is_blank(str) == \A i \in 1..Len(str) : str[i] \in {9, 10, 11, 12, 13, 32}

----------------------------------------------------------------------------
(* struct: big-endian unsigned integers.                                   *)

be_uint16(n) == <<n \div 256, n % 256>>
be_uint32(n) == <<n \div 16777216, (n \div 65536) % 256, (n \div 256) % 256, n % 256>>
from_be(b) == Fold(LAMBDA acc, i : acc * 256 + b[i], 0, 1, Len(b))

----------------------------------------------------------------------------
(* zlib.  zlib.compress is modelled by the zlib stream that holds the data *)
(* in one stored block: CMF/FLG 78 DA, the block header 01, LEN and NLEN   *)
(* little-endian, the data, and the Adler-32 of the data big-endian.       *)
(* zlib.decompress reads such a stream, fails on anything else the model   *)
(* hands it, and ignores what follows the checksum.                        *)

adler32(data) ==
  LET st == Fold(LAMBDA acc, i :
                   LET a == (acc.a + data[i]) % 65521
                   IN [a |-> a, b |-> (acc.b + a) % 65521],
                 [a |-> 1, b |-> 0], 1, Len(data))
  IN be_uint16(st.b) \o be_uint16(st.a)

zlib_compress(data) ==
  <<120, 218, 1>>
  \o <<Len(data) % 256, Len(data) \div 256>>
  \o <<255 - (Len(data) % 256), 255 - (Len(data) \div 256)>>
  \o data \o adler32(data)

zlib_decompress(z) ==
  LET bad == [err |-> "DecompressError", data |-> <<>>]
      len == z[4] + 256 * z[5]
  IN IF Len(z) < 7 THEN bad
     ELSE IF (z[1] % 16) # 8 \/ z[1] \div 16 > 7 THEN bad
     ELSE IF ((z[1] * 256 + z[2]) % 31) # 0 \/ ((z[2] \div 32) % 2) = 1 THEN bad
     ELSE IF (z[3] % 8) # 1 THEN bad
     ELSE IF z[6] # 255 - z[4] \/ z[7] # 255 - z[5] THEN bad
     ELSE IF Len(z) < 7 + len + 4 THEN bad
     ELSE LET data == SubSeq(z, 8, 7 + len)
          IN IF SubSeq(z, 8 + len, 11 + len) # adler32(data) THEN bad
             ELSE [err |-> "", data |-> data]

----------------------------------------------------------------------------
(* 4.B Key derivation and AEAD.  PBKDF2-HMAC-SHA256 and AES-256-GCM are    *)
(* modelled with the model's hash: the key is a digest of passphrase and   *)
(* salt, the ciphertext is the plaintext shifted by a key stream, and the  *)
(* tag is a digest of key, nonce and ciphertext, checked before anything   *)
(* is decrypted.                                                           *)

derive_key(key, salt_) ==
  IF Len(key) = 0 THEN [err |-> "KeyRequired", key |-> <<>>]
  ELSE [err |-> "", key |-> sha256(key \o salt_)]

aes_tag(k, nonce_, c) == SubSeq(sha256(k \o nonce_ \o c), 1, TAG_LEN)

aesgcm_encrypt(k, nonce_, plaintext) ==
  LET ks == sha256(k \o nonce_)
      c == Tab(LAMBDA i : (plaintext[i] + ks[((i - 1) % HASH_LEN) + 1] + i) % 256,
               1, Len(plaintext))
  IN c \o aes_tag(k, nonce_, c)

\* AESGCM(k).decrypt(nonce, ciphertext, None) without the check of the tag.
aesgcm_decrypt_unchecked(k, nonce_, data) ==
  LET c == SubSeq(data, 1, Len(data) - TAG_LEN)
      ks == sha256(k \o nonce_)
  IN IF Len(data) < TAG_LEN THEN [err |-> "AuthFailure", plaintext |-> <<>>]
     ELSE [err |-> "",
           plaintext |-> Tab(LAMBDA i : (c[i] + 512 - ks[((i - 1) % HASH_LEN) + 1] - i)
                                          % 256,
                             1, Len(c))]

aesgcm_decrypt(k, nonce_, data) ==
  IF Len(data) < TAG_LEN THEN [err |-> "AuthFailure", plaintext |-> <<>>]
  ELSE LET c == SubSeq(data, 1, Len(data) - TAG_LEN)
           tag == SubSeq(data, Len(data) - TAG_LEN + 1, Len(data))
           ks == sha256(k \o nonce_)
       IN IF tag # aes_tag(k, nonce_, c) THEN [err |-> "AuthFailure", plaintext |-> <<>>]
          ELSE [err |-> "",
                plaintext |-> Tab(LAMBDA i : (c[i] + 512 - ks[((i - 1) % HASH_LEN) + 1] - i)
                                               % 256,
                                  1, Len(c))]

\* salt and nonce are the two os.urandom draws.
encrypt_payload(plaintext, key, salt_, nonce_) ==
  LET k == derive_key(key, salt_)
  IN IF k.err # "" THEN [err |-> k.err, ciphertext |-> <<>>]
     ELSE [err |-> "", ciphertext |-> aesgcm_encrypt(k.key, nonce_, plaintext)]

decrypt_payload(ciphertext, key, salt_, nonce_) ==
  LET k == derive_key(key, salt_)
  IN IF k.err # "" THEN [err |-> k.err, plaintext |-> <<>>]
     ELSE aesgcm_decrypt(k.key, nonce_, ciphertext)

----------------------------------------------------------------------------
(* 4.C Payload wrapper.                                                    *)

build_inner_payload(data, filename) ==
  LET data_hash == sha256(data)
      name_bytes == IF Len(filename) > 0 THEN utf8_encode(filename) ELSE <<>>
      compressed == zlib_compress(data)
  IN IF Len(name_bytes) > MAX_NAME_LEN THEN [err |-> "FilenameTooLong", payload |-> <<>>]
     ELSE [err |-> "",
           payload |-> data_hash \o be_uint16(Len(name_bytes)) \o name_bytes
                       \o compressed]

\* Returns [err, data_hash, name_bytes, name, data]; name_bytes are the bytes
\* payload[name_start:name_end] that name decodes.
parse_inner_payload_strict(payload) ==
  LET fail(kind) == [err |-> kind, data_hash |-> <<>>, name_bytes |-> <<>>,
                     name |-> <<>>, data |-> <<>>]
      name_len == from_be(SubSeq(payload, HASH_LEN + 1, INNER_HEADER_LEN))
      name_end == INNER_HEADER_LEN + name_len
      name_bytes == SubSeq(payload, INNER_HEADER_LEN + 1, name_end)
      z == zlib_decompress(SubSeq(payload, name_end + 1, Len(payload)))
  IN IF Len(payload) < INNER_HEADER_LEN THEN fail("PayloadMalformed")
     ELSE IF name_end >= Len(payload) THEN fail("PayloadMalformed")
     ELSE IF z.err # "" THEN fail(z.err)
     ELSE [err |-> "",
           data_hash |-> SubSeq(payload, 1, HASH_LEN),
           name_bytes |-> name_bytes,
           name |-> utf8_decode(name_bytes),
           data |-> z.data]

parse_inner_payload(payload) ==
  LET fail(kind) == [err |-> kind, data_hash |-> <<>>, name_bytes |-> <<>>,
                     name |-> <<>>, data |-> <<>>]
      name_len == from_be(SubSeq(payload, HASH_LEN + 1, INNER_HEADER_LEN))
      name_start == INNER_HEADER_LEN
      name_end == name_start + name_len
      name_bytes == SubSeq(payload, name_start + 1, name_end)
      z == zlib_decompress(SubSeq(payload, name_end + 1, Len(payload)))
  IN IF Len(payload) < INNER_HEADER_LEN THEN fail("PayloadMalformed")
     ELSE IF name_end > Len(payload) THEN fail("PayloadMalformed")
     ELSE IF z.err # "" THEN fail(z.err)
     ELSE [err |-> "",
           data_hash |-> SubSeq(payload, 1, HASH_LEN),
           name_bytes |-> name_bytes,
           name |-> utf8_decode(name_bytes),
           data |-> z.data]

----------------------------------------------------------------------------
(* 4.G Fidelity metrics.                                                   *)

\* capacity_bytes of compute_metrics: (capacity_bits // REDUNDANCY) // 8.
capacity_bytes_of(original) ==
  (capacity_bits_of(compute_edge_depth_map(original)) \div REDUNDANCY) \div 8

\* used_bytes = used_bits // 8
used_bytes_of(used_bits) == used_bits \div 8

\* mse is the mean of sq_err over the h*w*3 samples; psnr is +inf exactly
\* when mse = 0, which the record keeps as mse_zero.
compute_metrics(original, stego_arr, used_bits) ==
  LET n == Len(original.px)
      sq_err == Fold(LAMBDA acc, i :
                       acc + Fold(LAMBDA a, ch :
                                    a + (original.px[i][ch] - stego_arr.px[i][ch])
                                        * (original.px[i][ch] - stego_arr.px[i][ch]),
                                  0, 1, 3),
                     0, 1, n)
  IN [sq_err |-> sq_err,
      samples |-> 3 * n,
      mse_zero |-> sq_err = 0,
      capacity_bytes |-> capacity_bytes_of(original),
      used_bytes |-> used_bytes_of(used_bits)]

----------------------------------------------------------------------------
(* The handlers.  A secret is [kind |-> "file", data, filename],           *)
(* [kind |-> "text", text] or [kind |-> "none"].  The PNG written by       *)
(* embed and read back by extract is lossless on 8-bit RGB: extract sees   *)
(* the array embed_bits returned.                                          *)

SECRET_TXT == <<115, 101, 99, 114, 101, 116, 46, 116, 120, 116>>        \* "secret.txt"
EXTRACTED_BIN == <<101, 120, 116, 114, 97, 99, 116, 101, 100, 46, 98, 105, 110>>
                                                                        \* "extracted.bin"

\* struct.pack(HEADER_FMT, MAGIC, len(ciphertext), salt, nonce)
pack_header(ciphertext_len, salt_, nonce_) ==
  MAGIC \o be_uint32(ciphertext_len) \o salt_ \o nonce_

\* POST /api/embed.  Returns [err, bits, stego, metrics].
embed(arr, key, sec, salt_, nonce_) ==
  LET fail(kind) == [err |-> kind, bits |-> <<>>,
                     stego |-> [err |-> kind, arr |-> [h |-> 0, w |-> 0, px |-> <<>>],
                                bit_idx |-> 0, input |-> arr],
                     metrics |-> [sq_err |-> 0, samples |-> 0, mse_zero |-> TRUE,
                                  capacity_bytes |-> 0, used_bytes |-> 0]]
      has_file == sec.kind = "file"
      has_text == sec.kind = "text" /\ ~is_blank(sec.text)
      Embedding(bs) ==
        The({IF out.err # "" THEN [fail(out.err) EXCEPT !.bits = bs]
             ELSE [err |-> "", bits |-> bs, stego |-> out,
                   metrics |-> compute_metrics(arr, out.arr, Len(bs))] :
               out \in {embed_bits(arr, bs, key)}})
      Framing(ciphertext) ==
        The({Embedding(bs) :
               bs \in {LET header == pack_header(Len(ciphertext), salt_, nonce_)
                           payload == header \o ciphertext
                       IN bits_from_bytes(payload)}})
      Encrypting(inner) ==
        The({IF enc.err # "" THEN fail(enc.err) ELSE Framing(enc.ciphertext) :
               enc \in {encrypt_payload(inner, key, salt_, nonce_)}})
  IN IF ~has_file /\ ~has_text THEN fail("InputMissing")
     ELSE The({IF inner.err # "" THEN fail(inner.err) ELSE Encrypting(inner.payload) :
                 inner \in {build_inner_payload(
                              IF has_file THEN sec.data ELSE utf8_encode(sec.text),
                              IF has_file THEN sec.filename ELSE SECRET_TXT)}})

\* filename or "extracted.bin"
response_filename_raw(filename) == filename
response_filename(filename) == IF Len(filename) > 0 THEN filename ELSE EXTRACTED_BIN

\* POST /api/extract.  Returns [kind, filename, data, verified, header_bits,
\* all_bits].
extract(arr, key) ==
  The({LET header == bytes_from_bits(header_bits).bytes
           magic == SubSeq(header, 1, 4)
           payload_len == from_be(SubSeq(header, 5, 8))
           salt_ == SubSeq(header, 9, 8 + SALT_LEN)
           nonce_ == SubSeq(header, 9 + SALT_LEN, HEADER_LEN)
           total_bits == (HEADER_LEN + payload_len) * 8
           fail(kind, ab) == [kind |-> kind, filename |-> <<>>, data |-> <<>>,
                              verified |-> FALSE, header_bits |-> header_bits,
                              all_bits |-> ab]
           Parsing(all_bits, plaintext) ==
             The({IF inner.err # "" THEN fail(inner.err, all_bits)
                  ELSE [kind |-> "ok",
                        filename |-> response_filename(inner.name),
                        data |-> inner.data,
                        verified |-> (inner.data_hash = sha256(inner.data)),
                        header_bits |-> header_bits,
                        all_bits |-> all_bits] :
                    inner \in {parse_inner_payload(plaintext)}})
           Decrypting(all_bits) ==
             The({IF dec.err # "" THEN fail(dec.err, all_bits)
                  ELSE Parsing(all_bits, dec.plaintext) :
                    dec \in {LET all_bytes == bytes_from_bits(all_bits).bytes
                                 payload_bytes == SubSeq(all_bytes, HEADER_LEN + 1,
                                                         Len(all_bytes))
                             IN decrypt_payload(payload_bytes, key, salt_, nonce_)}})
       IN IF magic # MAGIC THEN fail("BadMagic", <<>>)
          ELSE The({Decrypting(all_bits) :
                      all_bits \in {extract_bits(arr, total_bits, key)}}) :
         header_bits \in {extract_bits(arr, HEADER_LEN * 8, key)}})

----------------------------------------------------------------------------
(* Inputs of the model.                                                    *)

MaxBits == 16        \* longest bit array handed to embed_bits on its own
PatternBits == 3     \* the bit arrays repeat a pattern of this many bits

None == <<>>
NoImage == [h |-> 0, w |-> 0, px |-> <<>>]
NoStego == [err |-> "none", arr |-> NoImage, bit_idx |-> 0, input |-> NoImage]
NoMetrics == [sq_err |-> 0, samples |-> 0, mse_zero |-> TRUE, capacity_bytes |-> 0,
              used_bytes |-> 0]
NoResponse == [kind |-> "none", filename |-> <<>>, data |-> <<>>, verified |-> FALSE,
               header_bits |-> <<>>, all_bits |-> <<>>]

\* Passphrases, as their UTF-8 bytes: "", "k", "cu" for the handlers and
\* "k", "abd" for the engine on its own.  On a 30x30 cover the frames that
\* "k" and "cu" write occupy disjoint pixels unless the secret is the long
\* one, as the frames of two passphrases do in any image that is large for
\* them.
Keys == {<<>>, <<107>>, <<99, 117>>}
EngineKeys == {<<107>>, <<97, 98, 100>>}

White == <<255, 255, 255>>
Black == <<0, 0, 0>>
Teal == <<18, 131, 140>>

Image(h, w, f) == [h |-> h, w |-> w, px |-> Tab(LAMBDA i : f[i], 1, h * w)]

\* The small covers: every colouring of a 1x3 and a 2x2 image with three
\* colours and of a 2x3 image with two.
SmallCovers ==
  {Image(1, 3, f) : f \in [1..3 -> {White, Black, Teal}]}
  \cup {Image(2, 2, f) : f \in [1..4 -> {White, Black, Teal}]}
  \cup {Image(2, 3, f) : f \in [1..6 -> {White, Teal}]}

\* The bit array of length len that repeats the PatternBits low bits of p.
BitPattern(len, p) ==
  Tab(LAMBDA i : (p \div (2 ^ ((i - 1) % PatternBits))) % 2, 1, len)

SmallBits == {BitPattern(len, p) : len \in 0..MaxBits, p \in 0..(2 ^ PatternBits - 1)}

ImgH == 30           \* height of the covers handed to the handlers
ImgW == 30           \* their width

\* The covers of the handlers: one colour, a checkerboard, two halves, and
\* (below) two halves with a spot.
Solid(c) == Image(ImgH, ImgW, [i \in 1..(ImgH * ImgW) |-> c])
Checker(c, d) ==
  Image(ImgH, ImgW,
        [i \in 1..(ImgH * ImgW) |->
           IF (((i - 1) \div ImgW) + ((i - 1) % ImgW)) % 2 = 0 THEN c ELSE d])
Halves(c, d) ==
  Image(ImgH, ImgW,
        [i \in 1..(ImgH * ImgW) |-> IF 2 * ((i - 1) % ImgW) < ImgW THEN c ELSE d])

\* The two halves with one pixel of colour e on the first half, away from the
\* border between them: an edge of its own, weaker than the border.
Grey == <<32, 32, 32>>
SpotRow == 13
SpotCol == 3
Spotted(c, d, e) ==
  Image(ImgH, ImgW,
        [i \in 1..(ImgH * ImgW) |->
           IF i - 1 = SpotRow * ImgW + SpotCol THEN e ELSE Halves(c, d).px[i]])

FreshCovers ==
  {Solid(White), Checker(Black, White), Halves(Black, White), Spotted(Black, White, Grey)}

\* The secrets: "A" with no filename, "hi" as b.bin, "A" as a name with a
\* two-byte character, forty bytes, the text "A", a blank text, nothing.
Secrets ==
  { [kind |-> "file", data |-> <<65>>, filename |-> <<>>],
    [kind |-> "file", data |-> <<104, 105>>, filename |-> <<98, 46, 98, 105, 110>>],
    [kind |-> "file", data |-> <<65>>, filename |-> <<233, 46, 116>>],
    [kind |-> "file", data |-> Tab(LAMBDA i : (7 * i) % 256, 1, 40), filename |-> <<>>],
    [kind |-> "text", text |-> <<65>>],
    [kind |-> "text", text |-> <<32>>],
    [kind |-> "none"] }

\* What os.urandom(n) may return, cut down to one byte string per draw d.
Urandom(n, d) == Tab(LAMBDA i : (d * 37 + i * 11) % 256, 1, n)
MaxDraw == 0

\* A cover that is itself a stego image: the checkerboard after an earlier
\* embed of "hi" as b.bin under "k".
CarriedSecret == [kind |-> "file", data |-> <<104, 105>>, filename |-> <<98, 46, 98, 105, 110>>]
CarriedKey == <<107>>
Carrier ==
  embed(Checker(Black, White), CarriedKey, CarriedSecret,
        Urandom(SALT_LEN, 5), Urandom(NONCE_LEN, 6)).stego.arr

Covers == FreshCovers \cup {Carrier}

----------------------------------------------------------------------------
(* The engine on its own: embed_bits on a small cover, then extract_bits   *)
(* on what it returned.                                                    *)

InitEngine ==
  /\ pc = "start"
  /\ cover \in SmallCovers
  /\ passphrase = None /\ secret = None /\ salt = None /\ nonce = None
  /\ bits = None /\ stego = NoStego /\ metrics = NoMetrics
  /\ xkey = None /\ xbits = None /\ response = NoResponse
  /\ arg = None /\ ret = None

EmbedBits ==
  /\ pc = "start"
  /\ \E key \in EngineKeys, bs \in SmallBits :
       /\ passphrase' = key
       /\ bits' = bs
       /\ stego' = embed_bits(cover, bs, key)
       /\ cover' = stego'.input
       /\ pc' = IF stego'.err = "" THEN "embedded" ELSE "rejected"
  /\ UNCHANGED <<secret, salt, nonce, metrics, xkey, xbits, response, arg, ret>>

ExtractBits ==
  /\ pc = "embedded"
  /\ xkey' = passphrase
  /\ xbits' = extract_bits(stego.arr, Len(bits), passphrase)
  /\ pc' = "extracted"
  /\ UNCHANGED <<cover, passphrase, secret, salt, nonce, bits, stego, metrics,
                 response, arg, ret>>

\* compute_metrics on a cover, what embed_bits made of it, and the number of
\* bits it was handed.
Measure ==
  /\ pc = "embedded"
  /\ metrics' = compute_metrics(cover, stego.arr, Len(bits))
  /\ pc' = "measured"
  /\ UNCHANGED <<cover, passphrase, secret, salt, nonce, bits, stego, xkey, xbits,
                 response, arg, ret>>

NextEngine == EmbedBits \/ ExtractBits \/ Measure

SpecEngine == InitEngine /\ [][NextEngine]_vars

----------------------------------------------------------------------------
(* Claims about the engine (SpecEngine).                                   *)

Embedded == pc \in {"embedded", "extracted", "measured"}

\* The first bit index of the pixel at position k of the order, were the
\* stream never exhausted: three channels of depth bits for every pixel before.
StartBit(depth_map, order, k) ==
  3 * Fold(LAMBDA acc, j : acc + depth_map[order[j] + 1], 0, 1, k - 1)

\* C2 (as claimed): the depth map extract_bits computes from the stego image
\* equals, pixel for pixel, the depth map embed_bits computed from the cover.
C2_SameDepthMap ==
  Embedded => compute_edge_depth_map(stego.arr) = compute_edge_depth_map(cover)

\* C3: embed_bits accepts a payload of exactly capacity_bytes bytes and writes
\* every one of its repeated bits, and rejects a payload of capacity_bytes + 1
\* bytes with CapacityExceeded, leaving every pixel as it was.
C3_CapacityBoundary ==
  LET cb == capacity_bytes_of(cover)
  IN /\ (pc \in {"embedded", "rejected"} /\ Len(bits) = 8 * cb)
          => /\ stego.err = ""
             /\ stego.bit_idx = REDUNDANCY * Len(bits)
     /\ (pc \in {"embedded", "rejected"} /\ Len(bits) = 8 * (cb + 1))
          => /\ stego.err = "CapacityExceeded"
             /\ stego.arr = cover

C3_Witness ==
  /\ pc = "embedded"
  /\ capacity_bytes_of(cover) = 1
  /\ Len(bits) = 8
  /\ stego.bit_idx = 24
  /\ stego.arr # cover

\* C7: what embed_bits returns has the cover's dimensions, agrees with the
\* cover above the low depth bits of every channel, leaves every channel
\* visited after the stream is exhausted (and every pixel of depth 0) as it
\* was, and the call leaves the caller's array alone.
FrameOfEmbed(before, out, bs, key) ==
  LET n == before.h * before.w
      depth_map == compute_edge_depth_map(before)
      order == shuffle(seed_from_key(key), n)
      total == REDUNDANCY * Len(bs)
  IN /\ out.arr.h = before.h /\ out.arr.w = before.w /\ Len(out.arr.px) = n
     /\ out.input = before
     /\ \A i \in 1..n : \A ch \in 1..3 :
          out.arr.px[i][ch] \div (2 ^ depth_map[i])
            = before.px[i][ch] \div (2 ^ depth_map[i])
     /\ \A k \in 1..n : \A ch \in 1..3 :
          LET i == order[k] + 1
          IN (\/ depth_map[i] = 0
              \/ StartBit(depth_map, order, k) + (ch - 1) * depth_map[i] >= total)
               => out.arr.px[i][ch] = before.px[i][ch]

C7_FrameOfEmbed ==
  [][(pc = "start" /\ pc' = "embedded")
       => /\ cover' = cover
          /\ FrameOfEmbed(cover, stego', bits', passphrase')]_vars

C7_Witness ==
  /\ pc = "embedded"
  /\ stego.arr # cover
  /\ stego.bit_idx = REDUNDANCY * Len(bits)
  /\ stego.bit_idx < capacity_bits_of(compute_edge_depth_map(cover))
  /\ \E i \in 1..Len(cover.px) : compute_edge_depth_map(cover)[i] = 1

\* C9 (as claimed): the used_bytes compute_metrics reports is
\* ceil(used_bits / 8), for every used_bits it is handed.
C9_UsedBytesCeil ==
  pc = "measured" => metrics.used_bytes = (Len(bits) + 7) \div 8

----------------------------------------------------------------------------
(* The handlers: one embed on a cover, and an extract on the cover or on   *)
(* the stego image the embed returned.                                     *)

Init ==
  /\ pc = "start"
  /\ cover \in Covers
  /\ passphrase = None /\ secret = None /\ salt = None /\ nonce = None
  /\ bits = None /\ stego = NoStego /\ metrics = NoMetrics
  /\ xkey = None /\ xbits = None /\ response = NoResponse
  /\ arg = None /\ ret = None

Embed ==
  /\ pc = "start"
  /\ \E key \in Keys, sec \in Secrets, d \in 0..MaxDraw :
       \E out \in {embed(cover, key, sec, Urandom(SALT_LEN, d), Urandom(NONCE_LEN, d + 1))} :
          /\ passphrase' = key
          /\ secret' = sec
          /\ salt' = Urandom(SALT_LEN, d)
          /\ nonce' = Urandom(NONCE_LEN, d + 1)
          /\ bits' = out.bits
          /\ stego' = out.stego
          /\ metrics' = out.metrics
          /\ cover' = out.stego.input
          /\ pc' = IF out.err = "" THEN "embedded" ELSE "embed_failed"
  /\ UNCHANGED <<xkey, xbits, response, arg, ret>>

Extract ==
  /\ pc \in {"start", "embedded"}
  /\ \E key \in Keys :
       \E out \in {extract(IF pc = "embedded" THEN stego.arr ELSE cover, key)} :
          /\ xkey' = key
          /\ xbits' = out.all_bits
          /\ response' = out
          /\ pc' = IF pc = "embedded" THEN "extracted" ELSE "extracted_cover"
  /\ UNCHANGED <<cover, passphrase, secret, salt, nonce, bits, stego, metrics, arg, ret>>

Next == Embed \/ Extract

Spec == Init /\ [][Next]_vars

----------------------------------------------------------------------------
(* Claims about the handlers (Spec).                                       *)

SecretData(sec) == IF sec.kind = "file" THEN sec.data ELSE utf8_encode(sec.text)
SecretName(sec) == IF sec.kind = "file" THEN sec.filename ELSE SECRET_TXT
HasSecret(sec) ==
  \/ sec.kind = "file"
  \/ sec.kind = "text" /\ ~is_blank(sec.text)

\* C1 (as claimed): extract with the passphrase of the embed, on the stego
\* image the embed returned, returns the payload, the filename and
\* verified = true, on every cover, the solid white one included.  (The
\* empty filename is left to C6.)
C1_RoundTrip ==
  (pc = "extracted" /\ xkey = passphrase)
    => /\ response.kind = "ok"
       /\ response.data = SecretData(secret)
       /\ Len(SecretName(secret)) > 0 => response.filename = SecretName(secret)
       /\ response.verified

C5_EmptyKeyIsKeyRequired ==
  /\ (pc \in {"embedded", "embed_failed", "extracted"}
        /\ passphrase = <<>> /\ HasSecret(secret))
       => stego.err = "KeyRequired"
  /\ (pc \in {"extracted", "extracted_cover"} /\ xkey = <<>>)
       => response.kind = "KeyRequired"

\* C6 (as claimed): when extract succeeds on what embed made with filename F,
\* the filename it returns is F, the empty F included.
C6_FilenameExact ==
  (pc = "extracted" /\ xkey = passphrase /\ response.kind = "ok")
    => response.filename = SecretName(secret)

\* C6 (amended): when extract, with the passphrase of the embed, succeeds on
\* what embed made with filename F, the filename it returns is F if F is not
\* empty and "extracted.bin" if it is.
C6_FilenameOrDefault ==
  (pc = "extracted" /\ xkey = passphrase /\ response.kind = "ok")
    => response.filename
         = IF Len(SecretName(secret)) > 0 THEN SecretName(secret) ELSE EXTRACTED_BIN

C6_Witness ==
  /\ pc = "extracted" /\ xkey = passphrase /\ response.kind = "ok"
  /\ secret.kind = "file"
  /\ Len(secret.filename) = 0
  /\ response.filename = EXTRACTED_BIN
  /\ response.data = secret.data

\* The extract ran on the stego image with the passphrase of the embed, and
\* the depth map it computed from the stego image is the one embed_bits
\* computed from the cover: both walk the same pixels in the same order.
SameTraversal ==
  /\ pc = "extracted"
  /\ xkey = passphrase
  /\ compute_edge_depth_map(stego.arr) = compute_edge_depth_map(cover)

\* The last of the HEADER_LEN * 8 * REDUNDANCY repeated header bits is the
\* first of the two bits of a channel of depth 2.
HeaderEndsInsideChannel(depth_map, order) ==
  \E k \in 1..Len(order) :
    /\ depth_map[order[k] + 1] = 2
    /\ \E ch \in 1..3 :
         StartBit(depth_map, order, k) + 2 * (ch - 1) = HEADER_LEN * 8 * REDUNDANCY - 1

\* C11: when extract walks the stego image as embed walked the cover, its
\* first phase, extract_bits(arr, HEADER_LEN * 8, key), returns the 36 header
\* bytes embed wrote (magic, payload length, salt, nonce), and they are the
\* first 36 bytes of its second phase, also when the last repeated header bit
\* falls inside a channel of depth 2.
C11_TwoPhaseConsistent ==
  SameTraversal =>
    LET header == bytes_from_bits(response.header_bits).bytes
        all_bytes == bytes_from_bits(response.all_bits).bytes
    IN /\ response.header_bits = SubSeq(bits, 1, HEADER_LEN * 8)
       /\ header = pack_header(Len(bits) \div 8 - HEADER_LEN, salt, nonce)
       /\ Len(all_bytes) = Len(bits) \div 8
       /\ SubSeq(all_bytes, 1, HEADER_LEN) = header

\* The first phase reads one bit where embed wrote two, and the bit it reads
\* in place of the third copy of the last header bit (1) is the first bit of
\* the ciphertext (0).
C11_Witness ==
  /\ SameTraversal
  /\ bits[HEADER_LEN * 8] = 1
  /\ bits[HEADER_LEN * 8 + 1] = 0
  /\ HeaderEndsInsideChannel(compute_edge_depth_map(cover),
                             shuffle(seed_from_key(passphrase), Len(cover.px)))
  /\ response.kind = "ok"

----------------------------------------------------------------------------
(* decode_redundancy on its own: every raw bit array up to MaxRaw bits.    *)

MaxRaw == 9

BitArrays(n) == {Tab(LAMBDA i : f[i], 1, n) : f \in [1..n -> {0, 1}]}
RawInputs == UNION {BitArrays(n) : n \in 0..MaxRaw}

InitVote ==
  /\ pc = "start"
  /\ arg \in RawInputs
  /\ ret = None
  /\ cover = NoImage
  /\ passphrase = None /\ secret = None /\ salt = None /\ nonce = None
  /\ bits = None /\ stego = NoStego /\ metrics = NoMetrics
  /\ xkey = None /\ xbits = None /\ response = NoResponse

DecodeRedundancy ==
  /\ pc = "start"
  /\ ret' = decode_redundancy(arg)
  /\ pc' = "decoded"
  /\ UNCHANGED <<cover, passphrase, secret, salt, nonce, bits, stego, metrics,
                 xkey, xbits, response, arg>>

NextVote == DecodeRedundancy

SpecVote == InitVote /\ [][NextVote]_vars

\* The copies of bit g of b that differ from it in raw.
FlippedCopies(raw, b, g) ==
  {j \in 1..REDUNDANCY : raw[REDUNDANCY * (g - 1) + j] # b[g]}

\* C8: decode_redundancy emits one bit for every three raw bits in a row, 1
\* iff at least two of the three are 1; so it returns b from the three-fold
\* repetition of b, also when at most one copy of each bit was flipped.
C8_MajorityVote ==
  pc = "decoded"
    => /\ Len(ret) = Len(arg) \div 3
       /\ \A g \in 1..Len(ret) :
            /\ ret[g] \in {0, 1}
            /\ ret[g] = 1 <=> arg[3 * g - 2] + arg[3 * g - 1] + arg[3 * g] >= 2
       /\ \A b \in BitArrays(Len(arg) \div 3) :
            /\ arg = np_repeat(b, REDUNDANCY) => ret = b
            /\ (/\ Len(arg) = 3 * Len(b)
                /\ \A g \in 1..Len(b) : Cardinality(FlippedCopies(arg, b, g)) <= 1)
                 => ret = b

C8_Witness ==
  /\ pc = "decoded"
  /\ arg = <<1, 0, 1, 0, 0, 1, 1, 1, 0>>
  /\ ret = <<1, 0, 1>>

----------------------------------------------------------------------------
(* parse_inner_payload on its own: payloads cut off at every length, with  *)
(* a name-length field that is right, too small or too large, and with a   *)
(* tail that is a zlib stream, a damaged one, or none.                     *)

MaxData == 2

ParseNames == {<<>>, <<98>>, <<195, 169>>, <<255>>}
ParseData == {Tab(LAMBDA i : 64 + i, 1, n) : n \in 0..MaxData}
NameLens == {0, 1, 2, 3, 256, 65535}

Prefixes(b) == {SubSeq(b, 1, k) : k \in 0..Len(b)}
Damaged(z) == [z EXCEPT ![Len(z)] = (z[Len(z)] + 1) % 256]

Tails(d) == {zlib_compress(d), Damaged(zlib_compress(d)), zlib_compress(d) \o <<0>>}

ParseInputs ==
  UNION {UNION {Prefixes(sha256(d) \o be_uint16(nl) \o nm \o t) :
                  nm \in ParseNames, nl \in NameLens, t \in Tails(d)} :
           d \in ParseData}

InitParse ==
  /\ pc = "start"
  /\ arg \in ParseInputs
  /\ ret = None
  /\ cover = NoImage
  /\ passphrase = None /\ secret = None /\ salt = None /\ nonce = None
  /\ bits = None /\ stego = NoStego /\ metrics = NoMetrics
  /\ xkey = None /\ xbits = None /\ response = NoResponse

ParseInner ==
  /\ pc = "start"
  /\ ret' = parse_inner_payload(arg)
  /\ pc' = "parsed"
  /\ UNCHANGED <<cover, passphrase, secret, salt, nonce, bits, stego, metrics,
                 xkey, xbits, response, arg>>

NextParse == ParseInner

SpecParse == InitParse /\ [][NextParse]_vars

\* C10: parse_inner_payload fails with PayloadMalformed, returning nothing,
\* when the payload is shorter than 34 bytes or than 34 + name_len; otherwise
\* the name is the name_len bytes from byte 34 on, only what follows them is
\* decompressed, and the parse fails with DecompressError when that tail is
\* not a zlib stream, the empty tail included.
C10_ParseBoundaries ==
  pc = "parsed"
    => LET n == Len(arg)
           name_len == IF n >= 34 THEN 256 * arg[33] + arg[34] ELSE 0
           tail == SubSeq(arg, 34 + name_len + 1, n)
           z == zlib_decompress(tail)
           nothing == /\ ret.data_hash = <<>> /\ ret.name_bytes = <<>>
                      /\ ret.name = <<>> /\ ret.data = <<>>
       IN IF n < 34 \/ 34 + name_len > n
          THEN ret.err = "PayloadMalformed" /\ nothing
          ELSE /\ ret.err \in {"", "DecompressError"}
               /\ ret.err = "DecompressError" <=> (tail = <<>> \/ z.err # "")
               /\ ret.err = "DecompressError" => nothing
               /\ ret.err = ""
                    => /\ ret.data_hash = SubSeq(arg, 1, 32)
                       /\ ret.name_bytes = SubSeq(arg, 35, 34 + name_len)
                       /\ ret.name = utf8_decode(SubSeq(arg, 35, 34 + name_len))
                       /\ ret.data = z.data

C10_Witness ==
  /\ pc = "parsed"
  /\ Len(arg) = 36
  /\ arg[33] = 0 /\ arg[34] = 2
  /\ ret.err = "DecompressError"

----------------------------------------------------------------------------
(* The simple LSB codec of app.py: one bit in the low bit of every channel, *)
(* pixels in row order, a type byte and a 32-bit length before the message. *)

\* The integers of the model are below 2 ^ WORD.  Python's are unbounded: a
\* length read from an image is kept as LENGTH_CAP when it is that or more,
\* more than any image of the model holds.
WORD == 31
LENGTH_CAP == 2 ^ 24

\* format(n, '0<width>b'): the binary digits of n, most significant first,
\* padded with zeros to width digits; more digits when n needs them.
RECURSIVE bit_length(_)
bit_length(n) == IF n = 0 THEN 0 ELSE 1 + bit_length(n \div 2)

format_b(n, width) ==
  LET digits == IF bit_length(n) > width THEN bit_length(n) ELSE width
  IN Tab(LAMBDA j : IF digits - j >= WORD THEN 0 ELSE (n \div (2 ^ (digits - j))) % 2,
         1, digits)

\* int(binary, 2)
int_base2(binary) ==
  Fold(LAMBDA acc, j : Min(2 * acc + binary[j], LENGTH_CAP), 0, 1, Len(binary))

\* ''.join(format(byte, '08b') for byte in message_bytes)
join_format_b(message_bytes) ==
  Fold(LAMBDA acc, i : acc \o format_b(message_bytes[i], 8), <<>>, 1, Len(message_bytes))

TEXT == <<116, 101, 120, 116>>       \* 'text'
BINARY == <<98, 105, 110, 97, 114, 121>>                                \* 'binary'
ORD_T == 116                         \* ord('t')

\* (pixel[color_index] & 0xFE) | bit
set_lsb(value, bit) == (value \div 2) * 2 + bit

\* Returns [err, arr, bit_idx, input]: the error raised if any, the image
\* returned, bit_index when the loops ended, and the image handed in.
encode_message_to_image(image, message, data_type) ==
  The({LET message_length == Len(message_bytes)
           pixels == image.w * image.h
           max_bytes == (pixels * 3) \div 8
           type_binary == format_b(IF Len(data_type) > 0 THEN data_type[1] ELSE ORD_T, 8)
           length_binary == format_b(message_length, 32)
           message_binary == join_format_b(message_bytes)
           full_binary == type_binary \o length_binary \o message_binary
           Channel(st, color_index) ==
             IF st.bit_index >= Len(full_binary) THEN st
             ELSE [st EXCEPT !.pixel[color_index] = set_lsb(@, full_binary[st.bit_index + 1]),
                             !.bit_index = @ + 1]
           Pixel(st, pixel_index) ==
             IF st.bit_index >= Len(full_binary) THEN st
             ELSE LET after == Fold(Channel,
                                    [pixel |-> st.pixels_data[pixel_index],
                                     bit_index |-> st.bit_index], 1, 3)
                  IN [pixels_data |-> [st.pixels_data EXCEPT ![pixel_index] = after.pixel],
                      bit_index |-> after.bit_index]
           fin == Fold(Pixel, [pixels_data |-> image.px, bit_index |-> 0], 1, pixels)
       IN IF message_length > max_bytes
          THEN [err |-> "TooLarge", arr |-> [h |-> 0, w |-> 0, px |-> <<>>],
                bit_idx |-> 0, input |-> image]
          ELSE [err |-> "", arr |-> [h |-> image.h, w |-> image.w, px |-> fin.pixels_data],
                bit_idx |-> fin.bit_index, input |-> image] :
         message_bytes \in {utf8_encode(message)}})

\* base64.b64encode(...).decode('utf-8'), as code points.
b64_char(v) ==
  IF v < 26 THEN 65 + v
  ELSE IF v < 52 THEN 97 + (v - 26)
  ELSE IF v < 62 THEN 48 + (v - 52)
  ELSE IF v = 62 THEN 43 ELSE 47

b64encode(data) ==
  LET groups == (Len(data) + 2) \div 3
      byte(i) == IF i <= Len(data) THEN data[i] ELSE 0
      group(g) ==
        LET v == byte(3 * g - 2) * 65536 + byte(3 * g - 1) * 256 + byte(3 * g)
            have == Min(3, Len(data) - 3 * (g - 1))
        IN <<b64_char(v \div 262144), b64_char((v \div 4096) % 64),
             IF have >= 2 THEN b64_char((v \div 64) % 64) ELSE 61,
             IF have >= 3 THEN b64_char(v % 64) ELSE 61>>
  IN Fold(LAMBDA acc, g : acc \o group(g), <<>>, 1, groups)

\* message_bytes.decode('utf-8') raises nothing: the bytes are the UTF-8
\* encoding of what the decoder reads from them.
utf8_strict(message_bytes) == utf8_encode(utf8_decode(message_bytes)) = message_bytes

\* Returns [err, message, data_type, length].
decode_message_from_image(image) ==
  The({LET fail(kind) == [err |-> kind, message |-> <<>>, data_type |-> <<>>, length |-> 0]
           data_type_code == int_base2(SubSeq(binary_string, 1, 8))
           data_type == IF data_type_code < 128 THEN <<data_type_code>> ELSE <<ORD_T>>
           message_length == int_base2(SubSeq(binary_string, 9, 40))
           message_binary ==
             SubSeq(binary_string, 41, Min(40 + message_length * 8, Len(binary_string)))
           message_bytes ==
             Tab(LAMBDA k : int_base2(SubSeq(message_binary, 8 * k - 7, 8 * k)),
                 1, Len(message_binary) \div 8)
       IN IF Len(binary_string) < 8 THEN fail("NoData")
          ELSE IF Len(binary_string) < 40 THEN fail("NoData")
          ELSE IF Len(message_binary) < message_length * 8 THEN fail("Incomplete")
          ELSE IF utf8_strict(message_bytes)
            THEN [err |-> "", message |-> utf8_decode(message_bytes),
                  data_type |-> data_type, length |-> message_length]
          ELSE [err |-> "", message |-> b64encode(message_bytes),
                data_type |-> BINARY, length |-> message_length] :
         binary_string \in
           {Tab(LAMBDA b : image.px[(b - 1) \div 3 + 1][((b - 1) % 3) + 1] % 2,
                1, 3 * Len(image.px))}})

----------------------------------------------------------------------------
(* The simple codec on small images: an encode, and a decode of the image  *)
(* handed in or of the image encode returned.                              *)

MaxMsgLen == 3       \* longest message, in characters

\* Sizes that hold 3, 12, 45, 48, 60 and 75 bits.
SimpleSizes == {<<1, 1>>, <<2, 2>>, <<3, 5>>, <<4, 4>>, <<4, 5>>, <<5, 5>>}

\* An image whose low bits already spell a frame: type 't', length 1, and the
\* byte 0xFF, which is no UTF-8.
Spelled ==
  LET spelled == format_b(ORD_T, 8) \o format_b(1, 32) \o format_b(255, 8)
  IN [h |-> 4, w |-> 4,
      px |-> Tab(LAMBDA i : Tab(LAMBDA c : 100 + spelled[3 * (i - 1) + c], 1, 3), 1, 16)]

SimpleImages ==
  {[h |-> sz[1], w |-> sz[2], px |-> Tab(LAMBDA i : c, 1, sz[1] * sz[2])] :
     sz \in SimpleSizes, c \in {Black, Teal}} \cup {Spelled}

\* Messages of 'A', e-acute and the euro sign: one, two and three bytes each.
MsgChars == {65, 233, 8364}
Messages == UNION {{Tab(LAMBDA i : f[i], 1, n) : f \in [1..n -> MsgChars]} : n \in 0..MaxMsgLen}
DataTypes == {TEXT, <<>>}

InitSimple ==
  /\ pc = "start"
  /\ cover \in SimpleImages
  /\ passphrase = None /\ secret = None /\ salt = None /\ nonce = None
  /\ bits = None /\ stego = NoStego /\ metrics = NoMetrics
  /\ xkey = None /\ xbits = None /\ response = NoResponse
  /\ arg = None /\ ret = None

Encode ==
  /\ pc = "start"
  /\ \E message \in Messages, data_type \in DataTypes :
       \E out \in {encode_message_to_image(cover, message, data_type)} :
          /\ secret' = message
          /\ arg' = data_type
          /\ stego' = out
          /\ cover' = out.input
          /\ pc' = IF out.err = "" THEN "encoded" ELSE "encode_failed"
  /\ UNCHANGED <<passphrase, salt, nonce, bits, metrics, xkey, xbits, response, ret>>

Decode ==
  /\ pc \in {"start", "encoded"}
  /\ ret' = decode_message_from_image(IF pc = "encoded" THEN stego.arr ELSE cover)
  /\ pc' = IF pc = "encoded" THEN "decoded" ELSE "decoded_cover"
  /\ UNCHANGED <<cover, passphrase, secret, salt, nonce, bits, stego, metrics,
                 xkey, xbits, response, arg>>

NextSimple == Encode \/ Decode

SpecSimple == InitSimple /\ [][NextSimple]_vars

\* C12 (as claimed): for every image and every message encode accepts, encode
\* writes the whole of the 8 type bits, 32 length bits and message bits, and
\* decode of the image it returned gives back the message and its length in
\* bytes.
C12_SimpleRoundTrip ==
  /\ pc \in {"encoded", "decoded"}
       => stego.bit_idx = 40 + 8 * Len(utf8_encode(secret))
  /\ pc = "decoded"
       => /\ ret.err = ""
          /\ ret.message = secret
          /\ ret.length = Len(utf8_encode(secret))

====
